---- MODULE Spec2Model ----
(***************************************************************************)
(* Model of generate.py: the batch image generator.  generate_images       *)
(* (lines 128-186) is modelled statement group by statement group: the     *)
(* run directory creation, the loop over the prompts, the three-attempt    *)
(* loop around the provider call and the image-file writes, the exception  *)
(* handler with its linear backoff, and the summary.  main (lines 189-204) *)
(* and the functions it calls before generate_images are one step each.    *)
(* The text the program inspects (model names, typed lines) is a sequence  *)
(* of one-character strings.                                               *)
(*                                                                         *)
(* A path is the sequence of its segments below SCRIPT_DIR.  A prompt name  *)
(* is a file-name stem (the keys of prompts.json; spec section 3).         *)
(***************************************************************************)
EXTENDS Integers, Sequences, FiniteSets, TLC

\* ---------------------------------------------------------------- bounds
MaxPrompts == 2
MaxVariants == 2
MaxImages == 2
\* the models one listing yields, the characters of one typed line
MaxModels == 2
MaxInputLen == 2
\* the keys of prompts.json in a run of main
MaxFileKeys == 1

\* ------------------------------------------------------------- constants
SCRIPT_DIR == << >>
OUTPUT_BASE == SCRIPT_DIR \o <<"generated_images">>
\* datetime.now().strftime("%Y-%m-%d_%H-%M-%S") of the run's start second
timestamp == "2026-01-01_00-00-00"
\* a loop of four attempts
Attempts_Four == 3 + 1
\* for attempt in range(3)
Attempts == 3
\* if attempt < 1
LastAttempt_One == 2 - 1
\* if attempt < 2
LastAttempt == 2
\* wait = (attempt + 1) * 3
WaitUnit == 3

\* the keys prompts.json may hold
Names == { "cat", "dog", "cat_1" }

VARIABLES
    prompts,            \* the keys of the prompts dict, in iteration order
    images_per_prompt,
    pc,                 \* position in generate_images
    output_dir,         \* the run directory, << >> before line 131
    i,                  \* 1-based index of the prompt in progress
    attempt,            \* 0-based attempt number
    response,           \* len(response.generated_images) of the last call
    j,                  \* 0-based index of the image being written
    generated,
    success,
    failed,
    failed_names,
    dirs,               \* directories that exist
    files,              \* files that exist
    \* history of the run, not program state
    calls,              \* provider calls for prompt i: "raised", "empty", "images"
    waits,              \* time.sleep calls for prompt i: <<attempt no., secs>>
    werrs,              \* image-file writes that raised for prompt i
    saved,              \* "Saved:" lines of the attempt: <<image no., path>>
    outcomes,           \* terminal outcome of each prompt brought to an end
    invoked,            \* indices of the prompts the provider was called for
    allRaised,          \* every provider call of the run raised
    allExact,           \* every call returned images_per_prompt images, every write succeeded
    summaries,          \* number of summaries printed
    \* main and its collaborators
    api_key,            \* os.getenv("GOOGLE_API_KEY"), "" when unset or empty
    prompts_json,       \* PROMPTS_FILE: [exists, keys]
    models,             \* the result of fetch_image_models
    model,              \* the result of select_model, << >> before
    \* history of main
    last_input,         \* what the step just taken read: a listing or a typed line
    listCalls,          \* calls of client.models.list
    prompts_read,       \* prompts.json was opened for reading
    answer              \* the answer to confirm_run: "none", "yes", "no"

vars == << prompts, images_per_prompt, pc, output_dir, i, attempt, response, j,
           generated, success, failed, failed_names, dirs, files, calls, waits,
           werrs, saved, outcomes, invoked, allRaised, allExact, summaries,
           api_key, prompts_json, models, model, last_input, listCalls,
           prompts_read, answer >>

mainv == << api_key, prompts_json, models, model, last_input, listCalls,
            prompts_read, answer >>

prog == << output_dir, i, attempt, response, j, generated, success, failed,
           failed_names, dirs, files >>
hist == << calls, waits, werrs, saved, outcomes, invoked, allRaised, allExact,
           summaries >>

\* ------------------------------------------------------------- helpers
Last(s) == s[Len(s)]
Front(s) == SubSeq(s, 1, Len(s) - 1)

\* sequences without repetition over S of length 0..n (dict keys are unique)
DistinctSeqs(S, n) ==
    UNION { { s \in [1..k -> S] : \A a, b \in 1..k : a # b => s[a] # s[b] } :
            k \in 0..n }

\* the suffix counts the images from 0
Suffix_ZeroBased(jj, ipp) == IF ipp > 1 THEN "_" \o ToString(jj) ELSE ""

\* the suffix is left out whatever images_per_prompt is
Suffix_None(jj, ipp) == ""

\* suffix = f"_{j + 1}" if images_per_prompt > 1 else ""
Suffix(jj, ipp) == IF ipp > 1 THEN "_" \o ToString(jj + 1) ELSE ""

\* img_path = output_dir / f"{name}{suffix}.png"
ImgPath(dir, name, jj, ipp) == dir \o << name \o Suffix(jj, ipp) \o ".png" >>

\* Path.mkdir(parents=True, exist_ok=True)
Mkdir(path, ds) == ds \cup { SubSeq(path, 1, n) : n \in 0..Len(path) }

\* ------------------------------------------------------------------ text
\* the characters of the model, in code point order (sorted() and the
\* comparison of str go by code point)
CodeOrder == << " ", "-", ".", "/", "0", "1", "2", "3", "4", "5", "I",
                "N", "Y", "a", "d", "e", "g", "i", "l", "m", "n", "o", "r",
                "s", "t", "u", "x", "y" >>
Code(c) == CHOOSE k \in 1..Len(CodeOrder) : CodeOrder[k] = c

\* a < b for str
RECURSIVE StrLess(_, _)
StrLess(a, b) ==
    IF b = << >> THEN FALSE
    ELSE IF a = << >> THEN TRUE
    ELSE IF Head(a) # Head(b) THEN Code(Head(a)) < Code(Head(b))
    ELSE StrLess(Tail(a), Tail(b))

\* str.lower()
LowerChar(c) ==
    CASE c = "I" -> "i"
      [] c = "N" -> "n"
      [] c = "Y" -> "y"
      [] OTHER -> c
Lower(str) == [ k \in 1..Len(str) |-> LowerChar(str[k]) ]

\* str.removeprefix(prefix)
RemovePrefix(str, prefix) ==
    IF Len(str) >= Len(prefix) /\ SubSeq(str, 1, Len(prefix)) = prefix
    THEN SubSeq(str, Len(prefix) + 1, Len(str))
    ELSE str

\* sub in str
Contains(str, sub) ==
    \E k \in 0..(Len(str) - Len(sub)) : SubSeq(str, k + 1, k + Len(sub)) = sub

\* str.strip()
RECURSIVE Strip(_)
Strip(str) ==
    IF str = << >> THEN str
    ELSE IF Head(str) = " " THEN Strip(Tail(str))
    ELSE IF Last(str) = " " THEN Strip(Front(str))
    ELSE str

Digits == << "0", "1", "2", "3", "4", "5" >>
IsDigit(c) == \E d \in 1..Len(Digits) : Digits[d] = c
DigitVal(c) == (CHOOSE d \in 1..Len(Digits) : Digits[d] = c) - 1

RECURSIVE DecimalVal(_)
DecimalVal(ds) ==
    IF ds = << >> THEN 0 ELSE 10 * DecimalVal(Front(ds)) + DigitVal(Last(ds))

\* int(str): blanks around, a sign, then one digit or more; ValueError
\* (ok = FALSE) for anything else
ParseInt(str) ==
    LET t == Strip(str)
        neg == t # << >> /\ Head(t) = "-"
        ds == IF neg THEN Tail(t) ELSE t
    IN  IF ds # << >> /\ \A k \in 1..Len(ds) : IsDigit(ds[k])
        THEN [ok |-> TRUE, val |-> IF neg THEN 0 - DecimalVal(ds) ELSE DecimalVal(ds)]
        ELSE [ok |-> FALSE, val |-> 0]

\* sorted(set(seq)): insertion of each element into an ordered sequence
RECURSIVE Insert(_, _)
Insert(x, sorted) ==
    IF sorted = << >> THEN << x >>
    ELSE IF x = Head(sorted) THEN sorted
    ELSE IF StrLess(x, Head(sorted)) THEN << x >> \o sorted
    ELSE << Head(sorted) >> \o Insert(x, Tail(sorted))

RECURSIVE SortedSet(_)
SortedSet(seq) ==
    IF seq = << >> THEN << >> ELSE Insert(Last(seq), SortedSet(Front(seq)))

\* the lines the user may type at the two numeric prompts
InputChars == { "0", "1", "2", "3", "4", "5", " ", "-", "x" }
Inputs == UNION { [1..n -> InputChars] : n \in 0..MaxInputLen }

\* the lines the user may type at "Start generation? (Y/n): "
ConfirmInputs == { << >>, << " " >>, << "y" >>, << "Y" >>, << "y", "e", "s" >>,
                   << "Y", "e", "s" >>, << " ", "y", " " >>,
                   << "n" >>, << "n", "o" >>, << "N" >>, << "y", "e" >>, << "0" >> }

\* ------------------------------------------------------- model discovery
ModelsPrefix == << "m", "o", "d", "e", "l", "s", "/" >>
FamilyToken == << "i", "m", "a", "g", "e", "n" >>

\* the fallback of lines 46-51
StaticModels == <<
    << "i", "m", "a", "g", "e", "n", "-", "3", ".", "0", "-", "g", "e", "n", "e", "r", "a", "t", "e", "-", "0", "0", "1" >>,
    << "i", "m", "a", "g", "e", "n", "-", "3", ".", "0", "-", "g", "e", "n", "e", "r", "a", "t", "e", "-", "0", "0", "2" >>,
    << "i", "m", "a", "g", "e", "n", "-", "4", ".", "0", "-", "g", "e", "n", "e", "r", "a", "t", "e", "-", "0", "0", "1" >>,
    << "i", "m", "a", "g", "e", "n", "-", "4", ".", "0", "-", "u", "l", "t", "r", "a", "-", "g", "e", "n", "e", "r", "a", "t", "e", "-", "0", "0", "1" >> >>

\* names client.models.list() may yield; << >> is a model whose name is
\* None or empty
ListedNames == {
    << "m", "o", "d", "e", "l", "s", "/", "i", "m", "a", "g", "e", "n", "-", "3" >>,
    << "i", "m", "a", "g", "e", "n", "-", "3" >>,
    << "m", "o", "d", "e", "l", "s", "/", "I", "m", "a", "g", "e", "n", "-", "4" >>,
    << "m", "o", "d", "e", "l", "s", "/", "g", "e", "m", "i", "n", "i" >>,
    << >> }
Listings == UNION { [1..n -> ListedNames] : n \in 0..MaxModels }

\* lines 31-37: the loop over the listed models
RECURSIVE ImagenModels(_)
ImagenModels(listing) ==
    IF listing = << >> THEN << >>
    ELSE LET short_name == RemovePrefix(Last(listing), ModelsPrefix)
         IN  IF Contains(Lower(short_name), FamilyToken)
             THEN Append(ImagenModels(Front(listing)), short_name)
             ELSE ImagenModels(Front(listing))

\* the models found so far are returned when the listing raises midway
fetch_image_models_KeepsPartial(listing, raises) ==
    IF ImagenModels(listing) # << >>
    THEN SortedSet(ImagenModels(listing))
    ELSE StaticModels

\* lines 27-51: listing yields its items and then ends or raises
fetch_image_models(listing, raises) ==
    IF ~ raises /\ ImagenModels(listing) # << >>
    THEN SortedSet(ImagenModels(listing))
    ELSE StaticModels

\* 1 <= n, the upper limit is not checked
IppValid_NoUpper(n) == 1 <= n

\* line 105: 1 <= n <= 4
IppValid(n) == 1 <= n /\ n <= 4

\* line 123: answer and answer not in ("y", "yes")
Declines(ans) == ans # << >> /\ ans \notin { << "y" >>, << "y", "e", "s" >> }

\* ---------------------------------------------------------------- Init
Init ==
    /\ prompts \in DistinctSeqs(Names, MaxPrompts)
    /\ images_per_prompt \in 1..MaxVariants
    /\ pc = "mkdir"
    /\ output_dir = << >>
    /\ i = 0
    /\ attempt = 0
    /\ response = 0
    /\ j = 0
    /\ generated = FALSE
    /\ success = 0
    /\ failed = 0
    /\ failed_names = << >>
    /\ dirs = { SCRIPT_DIR }
    /\ files = { }
    /\ calls = << >>
    /\ waits = << >>
    /\ werrs = 0
    /\ saved = << >>
    /\ outcomes = << >>
    /\ invoked = { }
    /\ allRaised = TRUE
    /\ allExact = TRUE
    /\ summaries = 0
    \* generate_images is entered from main: a key, prompts, a model and the
    \* user's confirmation were there
    /\ api_key = "AIza"
    /\ prompts_json = [exists |-> TRUE, keys |-> prompts]
    /\ models = StaticModels
    /\ model = StaticModels[1]
    /\ last_input = << >>
    /\ listCalls = 1
    /\ prompts_read = TRUE
    /\ answer = "yes"

\* the state main starts in: the environment holds a key or none, the
\* prompts file is absent or holds some keys
MainInit ==
    /\ api_key \in { "", "AIza" }
    /\ prompts_json \in { [exists |-> FALSE, keys |-> << >>] } \cup
                        { [exists |-> TRUE, keys |-> ks] :
                            ks \in DistinctSeqs(Names, MaxFileKeys) }
    /\ pc = "get_client"
    /\ prompts = << >>
    /\ images_per_prompt = 0
    /\ models = << >>
    /\ model = << >>
    /\ output_dir = << >>
    /\ i = 0
    /\ attempt = 0
    /\ response = 0
    /\ j = 0
    /\ generated = FALSE
    /\ success = 0
    /\ failed = 0
    /\ failed_names = << >>
    /\ dirs = { SCRIPT_DIR }
    /\ files = { }
    /\ calls = << >>
    /\ waits = << >>
    /\ werrs = 0
    /\ saved = << >>
    /\ outcomes = << >>
    /\ invoked = { }
    /\ allRaised = TRUE
    /\ allExact = TRUE
    /\ summaries = 0
    /\ last_input = << >>
    /\ listCalls = 0
    /\ prompts_read = FALSE
    /\ answer = "none"

genv == << output_dir, i, attempt, response, j, generated, success, failed,
           failed_names, dirs, files, calls, waits, werrs, saved, outcomes,
           invoked, allRaised, allExact, summaries >>

\* ---------------------------------------------------------- main's steps
\* the missing key is reported, sys.exit is left out
GetClient_WarnsOnly ==
    /\ pc = "get_client"
    /\ pc' = "load_prompts"
    /\ UNCHANGED << prompts, images_per_prompt >>
    /\ UNCHANGED genv
    /\ UNCHANGED mainv

\* lines 17-24: get_client: sys.exit(1) without a key
GetClient ==
    /\ pc = "get_client"
    /\ pc' = IF api_key = "" THEN "exit1" ELSE "load_prompts"
    /\ UNCHANGED << prompts, images_per_prompt >>
    /\ UNCHANGED genv
    /\ UNCHANGED mainv

\* lines 75-94: load_prompts: a template is written and the run left when
\* the file is missing, the run is left when the file holds no prompt
LoadPrompts ==
    /\ pc = "load_prompts"
    /\ IF ~ prompts_json.exists
       THEN /\ prompts_json' = [exists |-> TRUE, keys |-> << "Example Person" >>]
            /\ pc' = "exit0"
            /\ UNCHANGED << prompts, prompts_read >>
       ELSE /\ prompts_read' = TRUE
            /\ prompts' = prompts_json.keys
            /\ pc' = IF prompts_json.keys = << >> THEN "exit0" ELSE "fetch_image_models"
            /\ UNCHANGED prompts_json
    /\ UNCHANGED images_per_prompt
    /\ UNCHANGED genv
    /\ UNCHANGED << api_key, models, model, last_input, listCalls, answer >>

\* lines 27-51: fetch_image_models with what client.models.list() yields
FetchImageModels ==
    /\ pc = "fetch_image_models"
    /\ \E listing \in Listings, raises \in BOOLEAN :
          /\ models' = fetch_image_models(listing, raises)
          /\ last_input' = << listing, raises >>
    /\ listCalls' = listCalls + 1
    /\ pc' = "select_model"
    /\ UNCHANGED << prompts, images_per_prompt >>
    /\ UNCHANGED genv
    /\ UNCHANGED << api_key, prompts_json, model, prompts_read, answer >>

\* lines 63-72: one round of the loop of select_model: a line is read; the
\* model is returned when the line is a number of the menu
SelectModel ==
    /\ pc = "select_model"
    /\ \E raw \in Inputs :
          LET choice == Strip(raw)
              parsed == ParseInt(choice)
              idx == parsed.val - 1
          IN  IF parsed.ok /\ 0 <= idx /\ idx < Len(models)
              THEN /\ model' = models[idx + 1]
                   /\ last_input' = raw
                   /\ pc' = "get_images_per_prompt"
              ELSE UNCHANGED << model, last_input, pc >>
    /\ UNCHANGED << prompts, images_per_prompt >>
    /\ UNCHANGED genv
    /\ UNCHANGED << api_key, prompts_json, models, listCalls, prompts_read, answer >>

\* lines 99-109: one round of the loop of get_images_per_prompt
GetImagesPerPrompt ==
    /\ pc = "get_images_per_prompt"
    /\ \E line \in Inputs :
          LET raw == Strip(line)
              parsed == ParseInt(raw)
          IN  IF raw = << >>
              THEN /\ images_per_prompt' = 1
                   /\ last_input' = line
                   /\ pc' = "confirm_run"
              ELSE IF parsed.ok /\ IppValid(parsed.val)
              THEN /\ images_per_prompt' = parsed.val
                   /\ last_input' = line
                   /\ pc' = "confirm_run"
              ELSE UNCHANGED << images_per_prompt, last_input, pc >>
    /\ UNCHANGED prompts
    /\ UNCHANGED genv
    /\ UNCHANGED << api_key, prompts_json, models, model, listCalls, prompts_read,
                    answer >>

\* the answer is read and "Cancelled." printed, sys.exit is left out
ConfirmRun_GoesOn ==
    /\ pc = "confirm_run"
    /\ \E line \in ConfirmInputs :
          answer' = IF Declines(Lower(Strip(line))) THEN "no" ELSE "yes"
    /\ pc' = "mkdir"
    /\ last_input' = << >>
    /\ UNCHANGED << prompts, images_per_prompt >>
    /\ UNCHANGED genv
    /\ UNCHANGED << api_key, prompts_json, models, model, listCalls, prompts_read >>

\* lines 112-125, 204: confirm_run: sys.exit(0) on an answer other than
\* nothing, y or yes; generate_images is entered otherwise
ConfirmRun ==
    /\ pc = "confirm_run"
    /\ \E line \in ConfirmInputs :
          IF Declines(Lower(Strip(line)))
          THEN answer' = "no" /\ pc' = "exit0"
          ELSE answer' = "yes" /\ pc' = "mkdir"
    /\ last_input' = << >>
    /\ UNCHANGED << prompts, images_per_prompt >>
    /\ UNCHANGED genv
    /\ UNCHANGED << api_key, prompts_json, models, model, listCalls, prompts_read >>

\* ------------------------------------------------------------- actions
\* the error of mkdir is swallowed and the loop starts without a directory
MakeOutputDir_Ignores ==
    /\ pc = "mkdir"
    /\ output_dir' = OUTPUT_BASE \o <<timestamp>>
    /\ \/ dirs' = Mkdir(output_dir', dirs)
       \/ dirs' = dirs
    /\ pc' = "for"
    /\ success' = 0
    /\ failed' = 0
    /\ failed_names' = << >>
    /\ UNCHANGED << prompts, images_per_prompt, i, attempt, response, j,
                    generated, files >>
    /\ UNCHANGED hist
    /\ UNCHANGED mainv

\* lines 130-139: name and create the run directory, zero the counters.
\* mkdir raising (permissions, read-only disk) propagates out of
\* generate_images: there is no handler around it.
MakeOutputDir ==
    /\ pc = "mkdir"
    /\ output_dir' = OUTPUT_BASE \o <<timestamp>>
    /\ \/ /\ dirs' = Mkdir(output_dir', dirs)
          /\ pc' = "for"
          /\ success' = 0
          /\ failed' = 0
          /\ failed_names' = << >>
       \/ /\ dirs' = dirs
          /\ pc' = "aborted"
          /\ UNCHANGED << success, failed, failed_names >>
    /\ UNCHANGED << prompts, images_per_prompt, i, attempt, response, j,
                    generated, files >>
    /\ UNCHANGED hist
    /\ UNCHANGED mainv

\* lines 141-145: the next item of prompts.items(), generated = False and
\* the first attempt; the summary when the items are used up.
NextPrompt ==
    /\ pc = "for"
    /\ IF i < Len(prompts)
       THEN /\ i' = i + 1
            /\ generated' = FALSE
            /\ attempt' = 0
            /\ pc' = "try"
            /\ calls' = << >>
            /\ waits' = << >>
            /\ werrs' = 0
            /\ saved' = << >>
       ELSE /\ pc' = "summary"
            /\ UNCHANGED << i, generated, attempt, calls, waits, werrs, saved >>
    /\ UNCHANGED << prompts, images_per_prompt, output_dir, response, j,
                    success, failed, failed_names, dirs, files, outcomes,
                    invoked, allRaised, allExact, summaries >>
    /\ UNCHANGED mainv

\* lines 147-153: client.models.generate_images raises
GenerateRaises ==
    /\ pc = "try"
    /\ pc' = "except"
    /\ calls' = Append(calls, "raised")
    /\ invoked' = invoked \cup { i }
    /\ allExact' = FALSE
    /\ UNCHANGED << prompts, images_per_prompt >>
    /\ UNCHANGED prog
    /\ UNCHANGED << waits, werrs, saved, outcomes, allRaised, summaries >>
    /\ UNCHANGED mainv

\* lines 147-156: the call returns n > 0 images; the write loop starts
GenerateReturns ==
    /\ pc = "try"
    /\ \E n \in 1..MaxImages :
          /\ response' = n
          /\ calls' = Append(calls, "images")
          /\ allExact' = (allExact /\ n = images_per_prompt)
    /\ j' = 0
    /\ pc' = "write"
    /\ saved' = << >>
    /\ invoked' = invoked \cup { i }
    /\ allRaised' = FALSE
    /\ UNCHANGED << prompts, images_per_prompt, output_dir, i, attempt,
                    generated, success, failed, failed_names, dirs, files >>
    /\ UNCHANGED << waits, werrs, outcomes, summaries >>
    /\ UNCHANGED mainv

\* the empty response is raised as an error and goes through the handler
GenerateReturnsEmpty_Retries ==
    /\ pc = "try"
    /\ response' = 0
    /\ calls' = Append(calls, "empty")
    /\ pc' = "except"
    /\ invoked' = invoked \cup { i }
    /\ allRaised' = FALSE
    /\ allExact' = FALSE
    /\ UNCHANGED << prompts, images_per_prompt, output_dir, i, attempt, j,
                    generated, success, failed, failed_names, dirs, files >>
    /\ UNCHANGED << waits, werrs, saved, outcomes, summaries >>
    /\ UNCHANGED mainv

\* the empty response is reported and the loop left, failed is not incremented
GenerateReturnsEmpty_NoCount ==
    /\ pc = "try"
    /\ response' = 0
    /\ calls' = Append(calls, "empty")
    /\ failed_names' = Append(failed_names, prompts[i])
    /\ outcomes' = Append(outcomes, "failed")
    /\ pc' = "for"
    /\ invoked' = invoked \cup { i }
    /\ allRaised' = FALSE
    /\ allExact' = FALSE
    /\ UNCHANGED << prompts, images_per_prompt, output_dir, i, attempt, j,
                    generated, success, failed, dirs, files >>
    /\ UNCHANGED << waits, werrs, saved, summaries >>
    /\ UNCHANGED mainv

\* lines 147-155, 164-168: the call returns no image (an empty list or
\* None): the prompt is counted failed and the attempt loop is left
GenerateReturnsEmpty ==
    /\ pc = "try"
    /\ response' = 0
    /\ calls' = Append(calls, "empty")
    /\ failed' = failed + 1
    /\ failed_names' = Append(failed_names, prompts[i])
    /\ outcomes' = Append(outcomes, "failed")
    /\ pc' = "for"
    /\ invoked' = invoked \cup { i }
    /\ allRaised' = FALSE
    /\ allExact' = FALSE
    /\ UNCHANGED << prompts, images_per_prompt, output_dir, i, attempt, j,
                    generated, success, dirs, files >>
    /\ UNCHANGED << waits, werrs, saved, summaries >>
    /\ UNCHANGED mainv

\* lines 156-161: one image of the response is written.  open(img_path,
\* "wb") may raise; once the file is open it exists, and f.write may still
\* raise (image_bytes is None, disk full).
WriteImage ==
    /\ pc = "write"
    /\ j < response
    /\ LET img_path == ImgPath(output_dir, prompts[i], j, images_per_prompt)
       IN  \/ /\ files' = files \cup { img_path }
              /\ saved' = Append(saved, << j + 1, img_path >>)
              /\ j' = j + 1
              /\ pc' = "write"
              /\ UNCHANGED << werrs, allExact >>
           \/ /\ files' = files \cup { img_path }
              /\ pc' = "except"
              /\ werrs' = werrs + 1
              /\ allExact' = FALSE
              /\ UNCHANGED << saved, j >>
           \/ /\ files' = files
              /\ pc' = "except"
              /\ werrs' = werrs + 1
              /\ allExact' = FALSE
              /\ UNCHANGED << saved, j >>
    /\ UNCHANGED << prompts, images_per_prompt, output_dir, i, attempt,
                    response, generated, success, failed, failed_names, dirs >>
    /\ UNCHANGED << calls, waits, outcomes, invoked, allRaised, summaries >>
    /\ UNCHANGED mainv

\* lines 162-163, 168: every image is written: count the prompt, break
CountSuccess ==
    /\ pc = "write"
    /\ j = response
    /\ success' = success + 1
    /\ generated' = TRUE
    /\ outcomes' = Append(outcomes, "succeeded")
    /\ pc' = "for"
    /\ UNCHANGED << prompts, images_per_prompt, output_dir, i, attempt,
                    response, j, failed, failed_names, dirs, files >>
    /\ UNCHANGED << calls, waits, werrs, saved, invoked, allRaised, allExact,
                    summaries >>
    /\ UNCHANGED mainv

\* line 145: the attempt loop after a handled exception: the next value of
\* range(3), or the loop is used up and the prompt is over
AfterExcept(att) == IF att + 1 < Attempts THEN "try" ELSE "for"

\* the retry notice also records the prompt's name in failed_names
Retry_RecordsName ==
    /\ pc = "except"
    /\ attempt < LastAttempt
    /\ waits' = Append(waits, << attempt + 1, (attempt + 1) * WaitUnit >>)
    /\ failed_names' = Append(failed_names, prompts[i])
    /\ pc' = AfterExcept(attempt)
    /\ attempt' = IF pc' = "try" THEN attempt + 1 ELSE attempt
    /\ UNCHANGED << prompts, images_per_prompt, output_dir, i, response, j,
                    generated, success, failed, dirs, files >>
    /\ UNCHANGED << calls, werrs, saved, outcomes, invoked, allRaised,
                    allExact, summaries >>
    /\ UNCHANGED mainv

\* lines 170-174: except Exception with attempt < 2: sleep, next attempt
Retry ==
    /\ pc = "except"
    /\ attempt < LastAttempt
    /\ waits' = Append(waits, << attempt + 1, (attempt + 1) * WaitUnit >>)
    /\ pc' = AfterExcept(attempt)
    /\ attempt' = IF pc' = "try" THEN attempt + 1 ELSE attempt
    /\ UNCHANGED << prompts, images_per_prompt, output_dir, i, response, j,
                    generated, success, failed, failed_names, dirs, files >>
    /\ UNCHANGED << calls, werrs, saved, outcomes, invoked, allRaised,
                    allExact, summaries >>
    /\ UNCHANGED mainv

\* failed_names.insert(0, name)
GiveUp_Prepends ==
    /\ pc = "except"
    /\ ~ (attempt < LastAttempt)
    /\ failed' = failed + 1
    /\ failed_names' = << prompts[i] >> \o failed_names
    /\ outcomes' = Append(outcomes, "failed")
    /\ pc' = AfterExcept(attempt)
    /\ attempt' = IF pc' = "try" THEN attempt + 1 ELSE attempt
    /\ UNCHANGED << prompts, images_per_prompt, output_dir, i, response, j,
                    generated, success, dirs, files >>
    /\ UNCHANGED << calls, waits, werrs, saved, invoked, allRaised, allExact,
                    summaries >>
    /\ UNCHANGED mainv

\* the exception of the final attempt is raised again and ends the run
GiveUp_Aborts ==
    /\ pc = "except"
    /\ ~ (attempt < LastAttempt)
    /\ pc' = "aborted"
    /\ UNCHANGED << prompts, images_per_prompt >>
    /\ UNCHANGED prog
    /\ UNCHANGED hist
    /\ UNCHANGED mainv

\* lines 175-178: except Exception with attempt >= 2: count the prompt failed
GiveUp ==
    /\ pc = "except"
    /\ ~ (attempt < LastAttempt)
    /\ failed' = failed + 1
    /\ failed_names' = Append(failed_names, prompts[i])
    /\ outcomes' = Append(outcomes, "failed")
    /\ pc' = AfterExcept(attempt)
    /\ attempt' = IF pc' = "try" THEN attempt + 1 ELSE attempt
    /\ UNCHANGED << prompts, images_per_prompt, output_dir, i, response, j,
                    generated, success, dirs, files >>
    /\ UNCHANGED << calls, waits, werrs, saved, invoked, allRaised, allExact,
                    summaries >>
    /\ UNCHANGED mainv

\* the summary is printed only when a prompt succeeded
Summary_OnlyOnSuccess ==
    /\ pc = "summary"
    /\ summaries' = IF success > 0 THEN summaries + 1 ELSE summaries
    /\ pc' = "done"
    /\ UNCHANGED << prompts, images_per_prompt >>
    /\ UNCHANGED prog
    /\ UNCHANGED << calls, waits, werrs, saved, outcomes, invoked, allRaised,
                    allExact >>
    /\ UNCHANGED mainv

\* lines 180-186: the summary
Summary ==
    /\ pc = "summary"
    /\ summaries' = summaries + 1
    /\ pc' = "done"
    /\ UNCHANGED << prompts, images_per_prompt >>
    /\ UNCHANGED prog
    /\ UNCHANGED << calls, waits, werrs, saved, outcomes, invoked, allRaised,
                    allExact >>
    /\ UNCHANGED mainv

Next ==
    \/ MakeOutputDir
    \/ NextPrompt
    \/ GenerateRaises
    \/ GenerateReturns
    \/ GenerateReturnsEmpty
    \/ WriteImage
    \/ CountSuccess
    \/ Retry
    \/ GiveUp
    \/ Summary

Spec == Init /\ [][Next]_vars

\* main: lines 189-204
MainNext ==
    \/ GetClient
    \/ LoadPrompts
    \/ FetchImageModels
    \/ SelectModel
    \/ GetImagesPerPrompt
    \/ ConfirmRun
    \/ MakeOutputDir
    \/ NextPrompt
    \/ GenerateRaises
    \/ GenerateReturns
    \/ GenerateReturnsEmpty
    \/ WriteImage
    \/ CountSuccess
    \/ Retry
    \/ GiveUp
    \/ Summary

MainSpec == MainInit /\ [][MainNext]_vars

\* the interpreter runs the program on: every enabled step is taken
FairSpec == Spec /\ WF_vars(Next)

\* ------------------------------------------------------------ properties
Total == Len(prompts)

\* prompt i has reached its terminal outcome and the next one has not begun:
\* calls, waits, werrs and saved are the history of prompt i
PromptEnded == pc = "for" /\ i >= 1

NumOutcomes(o) == Cardinality({ k \in 1..Len(outcomes) : outcomes[k] = o })

AllRaised(cs) == \A n \in 1..Len(cs) : cs[n] = "raised"

\* C1: when generate_images reaches its summary, succeeded + failed equals
\* the number of prompts, whatever the provider calls and the file writes did.
C1_SummaryAccounting ==
    pc \in { "summary", "done" } => success + failed = Total

\* a run that ended with one prompt saved and one failed after a write error
C1_Witness ==
    /\ pc = "done"
    /\ success = 1
    /\ failed = 1
    /\ werrs > 0

\* C2: no per-prompt outcome aborts the run: once the run directory exists,
\* every prompt of the set gets at least one provider call and reaches a
\* terminal outcome, whatever happened to the prompts before it; the run
\* stops early only where the directory could not be made.
C2_EveryPromptProcessed ==
    /\ [](pc = "aborted" => i = 0 /\ invoked = { })
    /\ \A k \in 1..MaxPrompts :
          [](pc = "for" /\ k <= Total
                => <>(/\ k \in invoked
                      /\ Len(outcomes) >= k
                      /\ outcomes[k] \in { "succeeded", "failed" }
                      /\ success + failed >= k))

\* the second prompt ended after the first one ran out of attempts
C2_Witness ==
    /\ PromptEnded
    /\ i = 2
    /\ outcomes[1] = "failed"
    /\ 2 \in invoked
    /\ Len(outcomes) = 2

\* C3: the provider is called at most 3 times for one prompt, and exactly 3
\* times for a prompt on which every call raises.
C3_AttemptBudget ==
    /\ Len(calls) <= 3
    /\ (PromptEnded /\ AllRaised(calls)) => Len(calls) = 3

\* a prompt ended with three raising calls
C3_Witness ==
    /\ PromptEnded
    /\ AllRaised(calls)
    /\ Len(calls) = 3
    /\ failed >= 1

\* the n-th provider call of the prompt returned an empty image list
EmptyAt(n) == calls[n] = "empty"

\* the seconds slept for the prompt
RECURSIVE Slept(_)
Slept(ws) == IF ws = << >> THEN 0 ELSE Head(ws)[2] + Slept(Tail(ws))

\* the files directly in the run directory
InOutputDir == { f \in files : Front(f) = output_dir }

\* C4: once a provider call for a prompt has returned without raising, the
\* provider is not called again for that prompt, also when writing the
\* returned images then fails: a call that returned is the prompt's last.
C4_NoCallAfterReturn ==
    \A n \in 1..Len(calls) : calls[n] # "raised" => n = Len(calls)

\* C5 as stated: a prompt for which the provider returned an empty list is
\* counted failed, its name is the last of failed_names, and the provider
\* was called exactly once for it.
C5_EmptyInvokedOnce ==
    (PromptEnded /\ \E n \in 1..Len(calls) : EmptyAt(n))
        => /\ outcomes[i] = "failed"
           /\ Last(failed_names) = prompts[i]
           /\ Len(calls) = 1

\* C5 amended: an empty list returned without raising ends the prompt at
\* once: the prompt is counted failed with its name appended to
\* failed_names, that call is the prompt's last, no backoff wait follows
\* it, and the provider was called exactly once when the empty list
\* answers the prompt's first call.
C5_EmptyEndsPrompt ==
    \A n \in 1..Len(calls) :
        EmptyAt(n)
            => /\ pc \in { "for", "summary", "done" }
               /\ n = Len(calls)
               /\ Len(outcomes) = i
               /\ outcomes[i] = "failed"
               /\ failed = NumOutcomes("failed")
               /\ Last(failed_names) = prompts[i]
               /\ \A w \in 1..Len(waits) : waits[w][1] < n
               /\ (n = 1 => Len(calls) = 1 /\ waits = << >>)

\* the second prompt ended on an empty list returned by its first call
C5_Witness ==
    /\ PromptEnded
    /\ i = 2
    /\ Len(calls) = 1
    /\ EmptyAt(1)
    /\ failed_names # << >>
    /\ Last(failed_names) = prompts[2]

\* C6: with a provider that raises on every call, the run ends with
\* failed = total, succeeded = 0 and failed_names the prompt names in the
\* prompts' iteration order.
C6_AlwaysRaising ==
    (pc = "done" /\ allRaised)
        => /\ failed = Total
           /\ success = 0
           /\ failed_names = prompts

\* a run over two prompts in which every provider call raised
C6_Witness ==
    /\ pc = "done"
    /\ allRaised
    /\ Total = 2
    /\ failed = 2

\* C7: a prompt on which the provider raises on attempts 1 and 2 and returns
\* images on attempt 3, all written, is counted succeeded, is not in
\* failed_names, and had exactly 3 provider calls.
C7_ThirdAttemptSucceeds ==
    (/\ PromptEnded
     /\ Len(calls) >= 3
     /\ calls[1] = "raised"
     /\ calls[2] = "raised"
     /\ calls[3] = "images"
     /\ werrs = 0)
        => /\ Len(calls) = 3
           /\ Len(outcomes) = i
           /\ outcomes[i] = "succeeded"
           /\ success = NumOutcomes("succeeded")
           /\ generated
           /\ \A m \in 1..Len(failed_names) : failed_names[m] # prompts[i]

\* a prompt saved on its third attempt after two raising calls
C7_Witness ==
    /\ PromptEnded
    /\ Len(calls) = 3
    /\ calls[1] = "raised"
    /\ calls[2] = "raised"
    /\ calls[3] = "images"
    /\ werrs = 0
    /\ generated

\* C8: the backoff waits are 3 units after failed attempt 1 and 6 after
\* failed attempt 2, each after an attempt whose provider call raised: no
\* wait follows attempt 3 or an attempt whose call returned, with or
\* without images; the waits of one prompt add up to 0, 3 or 9, and to 9
\* when all three attempts raise.
C8_Backoff ==
    /\ \A w \in 1..Len(waits) :
          /\ waits[w][1] \in { 1, 2 }
          /\ waits[w][2] = 3 * waits[w][1]
          /\ waits[w][1] <= Len(calls)
          /\ calls[waits[w][1]] = "raised"
    /\ Len(waits) <= 2
    /\ Slept(waits) \in { 0, 3, 9 }
    /\ (PromptEnded /\ Len(calls) = 3 /\ AllRaised(calls)) => Slept(waits) = 9

\* C9: with a provider that always returns images_per_prompt images and file
\* writes that succeed, a run over a non-empty prompt set ends with
\* succeeded = total, failed = 0, failed_names empty and total *
\* images_per_prompt distinct files in the run directory.
C9_AlwaysExact ==
    (pc = "done" /\ allExact /\ Total >= 1)
        => /\ success = Total
           /\ failed = 0
           /\ failed_names = << >>
           /\ Cardinality(InOutputDir) = Total * images_per_prompt

\* a run over two prompts of two variants each, all returned and written
C9_Witness ==
    /\ pc = "done"
    /\ allExact
    /\ Total = 2
    /\ images_per_prompt = 2
    /\ Cardinality(files) = 4

\* C10: with images_per_prompt = 1 the image of prompt N goes to N.png;
\* with images_per_prompt > 1 the j-th returned image (from 1) goes to
\* N_j.png; every file lies directly in the one run directory, which is
\* named by the timestamp.
C10_FileLayout ==
    /\ \A s \in 1..Len(saved) :
          /\ saved[s][1] \in 1..MaxImages
          /\ saved[s][2] =
                << "generated_images", timestamp,
                   IF images_per_prompt = 1
                   THEN prompts[i] \o ".png"
                   ELSE prompts[i] \o "_" \o ToString(saved[s][1]) \o ".png" >>
          /\ saved[s][2] \in files
    /\ \A f \in files : Len(f) = 3 /\ Front(f) = << "generated_images", timestamp >>
    /\ (/\ pc = "done"
        /\ allExact
        /\ prompts = << "cat", "dog" >>)
          => files = IF images_per_prompt = 1
                     THEN { output_dir \o << "cat.png" >>, output_dir \o << "dog.png" >> }
                     ELSE { output_dir \o << n \o "_" \o ToString(v) \o ".png" >> :
                              n \in { "cat", "dog" }, v \in 1..images_per_prompt }

\* both variants of a prompt are saved
C10_Witness ==
    /\ PromptEnded
    /\ generated
    /\ images_per_prompt = 2
    /\ Len(saved) = 2
    /\ saved[2][2] = << "generated_images", timestamp, prompts[i] \o "_2.png" >>

\* the prompts brought to a terminal outcome: all before prompt i, and
\* prompt i once control is back at the loop head
NumEnded == IF pc \in { "try", "write", "except" } THEN i - 1 ELSE i

\* the position of a name among the keys of prompts
Pos(name) == CHOOSE k \in 1..Len(prompts) : prompts[k] = name

\* C13: the run directory is created once, in the step of line 132 and
\* before any provider call; when it cannot be created the run stops
\* there: no provider call, no counter changed, no summary, no further step.
C13_RunDirectory ==
    /\ [](invoked # { } => output_dir \in dirs)
    /\ [](pc = "aborted"
            => /\ output_dir \notin dirs
               /\ invoked = { }
               /\ calls = << >>
               /\ success = 0 /\ failed = 0 /\ failed_names = << >>
               /\ files = { }
               /\ summaries = 0)
    /\ [][/\ pc # "aborted"
          /\ dirs' # dirs => /\ pc = "mkdir"
                             /\ invoked = { }
                             /\ output_dir' \notin dirs
                             /\ output_dir' \in dirs']_vars

\* the run stopped where the directory could not be made
C13_Witness ==
    /\ pc = "aborted"
    /\ Total = 2
    /\ output_dir = << "generated_images", timestamp >>

\* C14: a prompt with a failed image-file write is counted failed, once,
\* with its name in failed_names, and is not counted succeeded.
C14_WriteFailureFailsPrompt ==
    (PromptEnded /\ werrs > 0)
        => /\ Len(outcomes) = i
           /\ outcomes[i] = "failed"
           /\ ~ generated
           /\ Cardinality({ m \in 1..Len(failed_names) :
                              failed_names[m] = prompts[i] }) = 1

\* C16: once the run directory exists the run comes to its end, and the
\* summary is printed exactly once, after the last prompt reached its
\* terminal outcome, also when every prompt failed.
C16_SummaryOnce ==
    /\ [](summaries <= 1)
    /\ [](summaries = 1 => pc = "done" /\ Len(outcomes) = Total /\ NumEnded = Total)
    /\ [](pc = "done" => summaries = 1)
    /\ [](pc = "for" => <>(pc = "done" /\ summaries = 1 /\ success + failed = Total))

\* the summary of a run in which both prompts failed
C16_Witness ==
    /\ pc = "done"
    /\ summaries = 1
    /\ Total = 2
    /\ failed = 2

\* C18: in every state of the generation loop len(failed_names) = failed,
\* failed_names has no duplicate and lists prompt names in the prompts'
\* order, success + failed is the number of prompts brought to a terminal
\* outcome, and no prompt is counted both succeeded and failed.
C18_Bookkeeping ==
    pc \in { "for", "try", "write", "except", "summary", "done" }
        => /\ Len(failed_names) = failed
           /\ \A a, b \in 1..Len(failed_names) :
                 a < b => /\ failed_names[a] # failed_names[b]
                          /\ Pos(failed_names[a]) < Pos(failed_names[b])
           /\ \A a \in 1..Len(failed_names) :
                 \E k \in 1..NumEnded : prompts[k] = failed_names[a]
           /\ success + failed = NumEnded
           /\ Len(outcomes) = NumEnded
           /\ success = NumOutcomes("succeeded")
           /\ \A k \in 1..Len(outcomes) :
                 (outcomes[k] = "failed")
                     <=> (\E a \in 1..Len(failed_names) : failed_names[a] = prompts[k])

\* a run that ended with its first prompt failed and its second saved
C18_Witness ==
    /\ pc = "done"
    /\ Total = 2
    /\ outcomes = << "failed", "succeeded" >>
    /\ failed_names = << prompts[1] >>

\* C19: the files of the run directory all belong to prompts counted
\* succeeded: a prompt counted failed leaves no image file.
C19_NoFileOfFailedPrompt ==
    \A f \in files :
        \E k \in 1..Len(prompts) :
            /\ \E jj \in 0..(MaxImages - 1) :
                  f = ImgPath(output_dir, prompts[k], jj, images_per_prompt)
            /\ \/ (k = i /\ pc \in { "write", "except", "try" })
               \/ (k <= Len(outcomes) /\ outcomes[k] = "succeeded")

\* C20: for a prompt counted succeeded the images of the response are in
\* as many distinct files as the response has images.
C20_OneFilePerImage ==
    (PromptEnded /\ generated)
        => Cardinality({ saved[s][2] : s \in 1..Len(saved) }) = response

\* ------------------------------------------------------ properties of main
\* control is in generate_images or main ended after it
InGeneration ==
    pc \in { "mkdir", "for", "try", "write", "except", "summary", "done", "aborted" }

\* C11 as stated: no provider call, neither the model listing nor an image
\* generation, is made before the user confirmed, and a negative answer
\* leaves no provider call made and no output directory.
C11_ConfirmBeforeAnyCall ==
    /\ (listCalls > 0 \/ invoked # { }) => answer = "yes"
    /\ answer = "no" => listCalls = 0 /\ invoked = { } /\ output_dir \notin dirs

\* C11 amended: no image-generation call is made and no output directory
\* or file is created before the user confirmed; the one provider call
\* before the confirmation is the model listing of fetch_image_models; a
\* negative answer ends the run with no generation call and no output
\* directory.
C11_ConfirmBeforeGeneration ==
    /\ (invoked # { } \/ calls # << >> \/ InGeneration) => answer = "yes"
    /\ (dirs # { SCRIPT_DIR } \/ files # { }) => answer = "yes"
    /\ answer # "none" => listCalls = 1
    /\ answer = "no"
          => /\ pc = "exit0"
             /\ invoked = { }
             /\ calls = << >>
             /\ dirs = { SCRIPT_DIR }
             /\ files = { }
             /\ summaries = 0

\* the user declined after the models were listed
C11_Witness ==
    /\ pc = "exit0"
    /\ answer = "no"
    /\ listCalls = 1
    /\ model # << >>

\* C12: without an API key the run ends in get_client with exit status 1:
\* no model listing, no generation call, the prompts file neither read
\* nor created, no output directory.
C12_NoKeyNoActivity ==
    /\ [](api_key = ""
            => /\ pc \in { "get_client", "exit1" }
               /\ listCalls = 0
               /\ invoked = { }
               /\ calls = << >>
               /\ ~ prompts_read
               /\ prompts = << >>
               /\ dirs = { SCRIPT_DIR }
               /\ files = { })
    /\ [][api_key = "" => /\ pc = "get_client"
                          /\ pc' = "exit1"
                          /\ prompts_json' = prompts_json]_vars
    /\ [](pc = "exit1" => api_key = "")

\* the run ended for want of a key, the prompts file still missing
C12_Witness ==
    /\ pc = "exit1"
    /\ api_key = ""
    /\ ~ prompts_json.exists

\* C15: fetch_image_models returns a non-empty sequence: the static list
\* when the listing raised, at whatever point, or when no listed name
\* holds the family token; otherwise the names that hold the token in any
\* case, without the models/ prefix, each once, in ascending order.
C15_Discovery ==
    pc = "select_model"
        => LET listing == last_input[1]
               raises == last_input[2]
               matching == { RemovePrefix(listing[k], ModelsPrefix) :
                               k \in { m \in 1..Len(listing) :
                                         Contains(Lower(listing[m]), FamilyToken) } }
           IN  /\ models # << >>
               /\ Len(StaticModels) = 4
               /\ (raises \/ matching = { }) => models = StaticModels
               /\ (~ raises /\ matching # { })
                     => /\ { models[k] : k \in 1..Len(models) } = matching
                        /\ \A a, b \in 1..Len(models) :
                              a < b => StrLess(models[a], models[b])

\* two listed models, returned in code point order without their prefix
C15_Witness ==
    /\ pc = "select_model"
    /\ ~ last_input[2]
    /\ last_input[1] = << << "i", "m", "a", "g", "e", "n", "-", "3" >>,
                          << "m", "o", "d", "e", "l", "s", "/", "I", "m", "a", "g", "e", "n", "-", "4" >> >>
    /\ models = << << "I", "m", "a", "g", "e", "n", "-", "4" >>,
                   << "i", "m", "a", "g", "e", "n", "-", "3" >> >>

\* C17: whatever the user types, get_images_per_prompt returns a value in
\* 1..4, and 1 for an empty line, and select_model returns an element of
\* the catalog: generate_images gets no other values.
C17_SelectionContracts ==
    /\ (pc = "confirm_run" \/ InGeneration \/ answer = "no")
          => /\ images_per_prompt \in 1..4
             /\ \E k \in 1..Len(models) : models[k] = model
             /\ model # << >>
    /\ pc = "get_images_per_prompt"
          => /\ \E k \in 1..Len(models) : models[k] = model
             /\ model # << >>
             /\ ParseInt(last_input).ok
             /\ models[ParseInt(last_input).val] = model
    /\ (pc = "confirm_run" /\ \A k \in 1..Len(last_input) : last_input[k] = " ")
          => images_per_prompt = 1

\* the provider is called with the second model of the menu and 4 variants
C17_Witness ==
    /\ pc = "try"
    /\ images_per_prompt = 4
    /\ Len(models) = 2
    /\ model = models[2]

====
